---- MODULE Spec2Model ----
(***************************************************************************)
(* A model of radash's async helpers (async.ts): parallel, all, retry,     *)
(* defer, map, tryit, together with the array helpers they call (range,    *)
(* list, sort, fork from array.ts).                                        *)
(*                                                                         *)
(* JavaScript runs one callback at a time; an action of this model is one  *)
(* such run-to-completion step: the synchronous part of a call, or the     *)
(* continuation that runs when an awaited promise settles.                  *)
(***************************************************************************)
EXTENDS Integers, Sequences, FiniteSets, TLC

\* ------------------------------------------------------------------------
\* Bounds of the model
\* ------------------------------------------------------------------------
MaxLen == 3
MaxLimit == 3
MaxTimes == 2
MaxCallbacks == 3

\* ------------------------------------------------------------------------
\* Values
\* ------------------------------------------------------------------------
\* JavaScript's undefined and null, the falsy values the model carries
Undefined == "undefined"
Null == "null"

\* the truthiness test of `!!x`, `if (x)` and `filter(r => r.x)`
Truthy(x) == x \notin {Undefined, Null}

\* the items an input list may hold
Items == {"a", "b"}

\* what a call of the caller's function may do: resolve with a value or
\* reject (or throw) with an error value, which may be any value at all
ResultVals == {"v1", "v2"}
ErrorVals == {"e1", "e2", Undefined}
Outcomes == [ok : {TRUE}, val : ResultVals] \cup [ok : {FALSE}, val : ErrorVals]

\* ------------------------------------------------------------------------
\* array.ts
\* ------------------------------------------------------------------------
RECURSIVE rangeLoop(_, _, _)
rangeLoop(i, final, step) ==
  IF i <= final
    THEN <<i>> \o (IF i + step > final THEN <<>> ELSE rangeLoop(i + step, final, step))
    ELSE <<>>

\* (variant) a range that takes an end of 0 as the end it is given
rangeEndGiven(startOrLength, end) == rangeLoop(startOrLength, end, 1)

\* range(startOrLength, end) with the default mapper and step; `end ?` is
\* false for end = 0
range(startOrLength, end) ==
  LET start == IF end # 0 THEN startOrLength ELSE 0
      final == end
  IN  rangeLoop(start, final, 1)

\* (variant) a list that starts one early, hence is one longer
listOneMore(startOrLength, end) == range(startOrLength - 1, end)

list(startOrLength, end) == range(startOrLength, end)

\* (variant) the insertion of a descending sort
RECURSIVE sortInsertDesc(_, _)
sortInsertDesc(sorted, r) ==
  IF sorted = <<>> THEN <<r>>
  ELSE IF Head(sorted).index >= r.index
         THEN <<Head(sorted)>> \o sortInsertDesc(Tail(sorted), r)
         ELSE <<r>> \o sorted

\* array.slice().sort((a, b) => getter(a) - getter(b)) with getter = r.index:
\* a stable insertion into ascending order
RECURSIVE sortInsert(_, _)
sortInsert(sorted, r) ==
  IF sorted = <<>> THEN <<r>>
  ELSE IF Head(sorted).index <= r.index
         THEN <<Head(sorted)>> \o sortInsert(Tail(sorted), r)
         ELSE <<r>> \o sorted

\* (variant) a sort that leaves the list as it is
sortUnsorted(arr) == arr

\* (the sorted prefix is bound as a value, so that it is computed once)
RECURSIVE sort(_)
sort(arr) ==
  IF arr = <<>> THEN <<>>
  ELSE CHOOSE s \in {sortInsert(sorted, arr[Len(arr)]) :
                       sorted \in {sort(SubSeq(arr, 1, Len(arr) - 1))}} : TRUE

\* fork(list, x => !!x.error): <<items with a truthy error, the others>>
RECURSIVE fork(_)
fork(lst) ==
  IF lst = <<>> THEN <<<<>>, <<>>>>
  ELSE LET acc == fork(SubSeq(lst, 1, Len(lst) - 1))
           item == lst[Len(lst)]
       IN  IF Truthy(item.error)
             THEN <<Append(acc[1], item), acc[2]>>
             ELSE <<acc[1], Append(acc[2], item)>>

RECURSIVE flat(_)
flat(lists) ==
  IF lists = <<>> THEN <<>> ELSE Head(lists) \o flat(Tail(lists))

\* ------------------------------------------------------------------------
\* async.ts: tryit
\* ------------------------------------------------------------------------
\* the pair [err, value] that tryit(func)(...) yields for an outcome of func
tryit(o) ==
  IF o.ok THEN [error |-> Undefined, result |-> o.val]
          ELSE [error |-> o.val, result |-> Undefined]

\* ------------------------------------------------------------------------
\* async.ts: map
\* ------------------------------------------------------------------------
\* What a call ends with: kind is "returned" or "raised"; a raised
\* AggregateError carries its errors in value, any other raised value is
\* the one element of value.
Outcome(kind, aggregate, value) ==
  [kind |-> kind, aggregate |-> aggregate, value |-> value]

\* the loop of map from the k-th item on: each call is awaited before the
\* next one is made, and a failed call ends map with that failure
RECURSIVE mapLoop(_, _, _, _)
mapLoop(arr, f, k, result) ==
  IF k > Len(arr) THEN Outcome("returned", FALSE, result)
  ELSE IF f[k].ok THEN mapLoop(arr, f, k + 1, Append(result, f[k].val))
  ELSE Outcome("raised", FALSE, <<f[k].val>>)

map(arr, f) == mapLoop(arr, f, 1, <<>>)

\* ------------------------------------------------------------------------
\* State
\* ------------------------------------------------------------------------
VARIABLES
  limit,      \* parallel: the limit argument
  array,      \* parallel: the caller's input list
  func,       \* parallel: the outcome of func for the item at each index
  work,       \* parallel: the pool of {index, item} the workers pop from
  queues,     \* parallel: one record per spawned processor
  calls,      \* parallel: the indexes func was started on, in start order
  settled,    \* parallel: the indexes whose invocation settled, in order
  ppc,        \* parallel: "idle", "running", "returned" or "raised"
  pout,       \* parallel: the list returned, or the errors of the
              \*           AggregateError raised
  perror,     \* parallel: the AggregateError raised, NoError before
  promises,   \* all: the argument, a list or an object of promises
  entries,    \* all: the [key, promise] pairs all waits for
  wrapped,    \* all: per entry, what its then/catch wrapper resolved with
  asettled,   \* all: the positions of the entries that settled, in order
  apc,        \* all: "off", "idle", "running", "returned" or "raised"
  aout,       \* all: the list or object returned, or the errors of the
              \*      AggregateError raised
  aerror,     \* all: the AggregateError raised, NoError before
  options,    \* retry: the options argument
  script,     \* retry: what the k-th call of func does, for each k
  iter,       \* retry: the values range(1, times) has yet to yield
  ri,         \* retry: the loop variable i
  attempts,   \* retry: the number of calls of func so far
  sleeps,     \* retry: the sleeps begun so far, in order
  rpc,        \* retry: "off", "idle", "attempting", "sleepDelay",
              \*        "sleepBackoff", "returned" or "raised"
  rout,       \* retry: the value returned or raised
  dbody,      \* defer: the outcome of the body func
  dregs,      \* defer: the callbacks the body registers, in order
  callbacks,  \* defer: the callbacks registered so far
  dpair,      \* defer: the pair [err, response] of the body
  dpos,       \* defer: the position in callbacks of the running callback
  dlog,       \* defer: the body's settling and the callbacks' starts and
              \*        settlings, in order
  dpc,        \* defer: "off", "idle", "body", "callback", "returned" or
              \*        "raised"
  dout,       \* defer: the value returned or raised
  tfunc,      \* tryit: what the wrapped func does, and whether it does it
              \*        synchronously or through a promise
  tcalls,     \* tryit: the number of calls of func so far
  tpc,        \* tryit: "off", "idle", "pending", "yielded" or "raised"
  tout        \* tryit: the pair yielded, or the value raised in error

parallelVars == <<limit, array, func, work, queues, calls, settled, ppc, pout, perror>>
allVars == <<promises, entries, wrapped, asettled, apc, aout, aerror>>
retryVars == <<options, script, iter, ri, attempts, sleeps, rpc, rout>>
deferVars == <<dbody, dregs, callbacks, dpair, dpos, dlog, dpc, dout>>
tryitVars == <<tfunc, tcalls, tpc, tout>>
vars == <<parallelVars, allVars, retryVars, deferVars, tryitVars>>

NoItem == [index |-> -1, item |-> "none"]

\* ------------------------------------------------------------------------
\* async.ts: AggregateError
\* ------------------------------------------------------------------------
\* no AggregateError has been constructed
NoError == [name |-> "", message |-> <<>>, errors |-> <<>>]

\* new AggregateError(errors). The errors of the model carry no name, so
\* errors.find(e => e.name)?.name ?? '' is ''. The message is the template
\* `AggregateError with ${errors.length} errors`, kept as its three parts.
AggregateError(errors) ==
  [name    |-> "AggregateError(...)",
   message |-> <<"AggregateError with ", Len(errors), " errors">>,
   errors  |-> errors]

\* ------------------------------------------------------------------------
\* async.ts: parallel
\* ------------------------------------------------------------------------
\* (variant) a pool built by moving the items out of the caller's list
inputDrained(arr) == <<>>

\* the caller's list after `array.map(...)`: map builds a new list and
\* leaves the one it is called on as it is
inputAfterMap(arr) == arr

\* (variant) a pool in reverse order, whose last element is the first item
makeWorkReversed(arr) ==
  [k \in 1..Len(arr) |-> [index |-> Len(arr) - k, item |-> arr[Len(arr) - k + 1]]]

\* array.map((item, index) => ({ index, item }))
makeWork(arr) == [k \in 1..Len(arr) |-> [index |-> k - 1, item |-> arr[k]]]

\* (variant) a pop that reads the last element and leaves it in the pool
popKeep(wk) ==
  IF wk = <<>> THEN [next |-> NoItem, rest |-> <<>>]
  ELSE [next |-> wk[Len(wk)], rest |-> wk]

\* work.pop(): the element removed (NoItem for undefined) and the rest
pop(wk) ==
  IF wk = <<>> THEN [next |-> NoItem, rest |-> <<>>]
  ELSE [next |-> wk[Len(wk)], rest |-> SubSeq(wk, 1, Len(wk) - 1)]

\* (variant) a processor that never calls res once it has had an item
processorTurnNoRes(results, wk, cl) ==
  LET p == pop(wk)
  IN  IF p.next = NoItem
        THEN [queue |-> [status |-> IF results = <<>> THEN "done" ELSE "idle",
                         next |-> NoItem, results |-> results],
              work |-> wk, calls |-> cl]
        ELSE [queue |-> [status |-> "awaiting", next |-> p.next, results |-> results],
              work |-> p.rest, calls |-> Append(cl, p.next.index)]

\* One turn of the processor's loop, from `work.pop()` to the await (or to
\* res(results)): the new state of the processor, of the pool and of the
\* log of started invocations.
processorTurn(results, wk, cl) ==
  LET p == pop(wk)
  IN  IF p.next = NoItem
        THEN [queue |-> [status |-> "done", next |-> NoItem, results |-> results],
              work |-> wk, calls |-> cl]
        ELSE [queue |-> [status |-> "awaiting", next |-> p.next, results |-> results],
              work |-> p.rest, calls |-> Append(cl, p.next.index)]

\* (variant) a spawn that stops as soon as the pool is empty
RECURSIVE spawnWhileWork(_, _, _, _)
spawnWhileWork(ids, qs, wk, cl) ==
  IF ids = <<>> \/ wk = <<>> THEN [queues |-> qs, work |-> wk, calls |-> cl]
  ELSE CHOOSE s \in {spawnWhileWork(Tail(ids), Append(qs, t.queue), t.work, t.calls) :
                       t \in {processorTurn(<<>>, wk, cl)}} : TRUE

\* list(1, limit).map(() => new Promise(processor)): the executor of each
\* promise runs synchronously up to its first await, one after the other
\* (the turn t of each processor is bound as a value, so that it is
\* computed once)
RECURSIVE spawn(_, _, _, _)
spawn(ids, qs, wk, cl) ==
  IF ids = <<>> THEN [queues |-> qs, work |-> wk, calls |-> cl]
  ELSE CHOOSE s \in {spawn(Tail(ids), Append(qs, t.queue), t.work, t.calls) :
                       t \in {processorTurn(<<>>, wk, cl)}} : TRUE

\* the call of parallel up to `await Promise.all(queues)`
ParallelCall ==
  /\ ppc = "idle"
  /\ LET s == spawn(list(1, limit), <<>>, makeWork(array), <<>>)
     IN  /\ queues' = s.queues
         /\ work' = s.work
         /\ calls' = s.calls
  /\ array' = inputAfterMap(array)
  /\ ppc' = "running"
  /\ UNCHANGED <<limit, func, settled, pout, perror, allVars, retryVars, deferVars, tryitVars>>

\* (variant) a processor that gives up at the first failed invocation
processorResumeAbort(q, o, wk, cl) ==
  LET r == tryit(o)
      results == Append(q.results,
                        [error |-> r.error, result |-> r.result,
                         index |-> q.next.index])
  IN  IF Truthy(r.error)
        THEN [queue |-> [status |-> "done", next |-> NoItem, results |-> results],
              work |-> wk, calls |-> cl]
        ELSE processorTurn(results, wk, cl)

\* The processor's continuation after `await tryit(func)(next.item)`, for
\* the outcome o of that invocation: results.push(...) and one more turn.
processorResume(q, o, wk, cl) ==
  LET r == tryit(o)
      results == Append(q.results,
                        [error |-> r.error, result |-> r.result,
                         index |-> q.next.index])
  IN  processorTurn(results, wk, cl)

\* the invocation processor w awaits settles and the processor resumes
ProcessorResume(w) ==
  /\ ppc = "running"
  /\ w \in 1..Len(queues)
  /\ queues[w].status = "awaiting"
  /\ LET t == processorResume(queues[w], func[queues[w].next.index + 1], work, calls)
     IN  /\ queues' = [queues EXCEPT ![w] = t.queue]
         /\ work' = t.work
         /\ calls' = t.calls
         /\ settled' = Append(settled, queues[w].next.index)
  /\ UNCHANGED <<limit, array, func, ppc, pout, perror, allVars, retryVars, deferVars, tryitVars>>

\* (variant) a wait that ends as soon as one processor has called res
anyQueueDone(qs) == \E w \in 1..Len(qs) : qs[w].status = "done"

\* Promise.all(queues) is fulfilled once every processor has called res
allQueuesDone(qs) == \A w \in 1..Len(qs) : qs[w].status = "done"

\* (variant) a parallel that raises whatever the list of errors holds
hasErrorsAlways(errors) == TRUE

\* errors.length > 0
hasErrors(errors) == Len(errors) > 0

\* the rest of parallel, after `await Promise.all(queues)`
ParallelFinish ==
  /\ ppc = "running"
  /\ allQueuesDone(queues)
  /\ \E itemResults \in {[w \in 1..Len(queues) |-> queues[w].results]} :
     \E sorted \in {sort(flat(itemResults))} :
     \E forked \in {fork(sorted)} :
     \E errors \in {forked[1]} :
     \E results \in {forked[2]} :
         IF hasErrors(errors)
           THEN /\ ppc' = "raised"
                /\ perror' = AggregateError([k \in 1..Len(errors) |-> errors[k].error])
                /\ pout' = perror'.errors
           ELSE /\ ppc' = "returned"
                /\ pout' = [k \in 1..Len(results) |-> results[k].result]
                /\ UNCHANGED perror
  /\ UNCHANGED <<limit, array, func, work, queues, calls, settled, allVars, retryVars, deferVars, tryitVars>>

\* ------------------------------------------------------------------------
\* async.ts: all
\* ------------------------------------------------------------------------
\* An object is the sequence of its [key, value] properties in property
\* order; a list given to all is carried the same way, its positions being
\* the keys "0", "1", ...
Keys == {"a", "b", "1", "2"}
IntegerKeys == {"1", "2"}
keyNumber(k) == IF k = "1" THEN 1 ELSE 2

\* obj with its property key set to value; a new property takes its place
\* in property order: integer keys first, ascending, then the other keys
\* in the order they were added
RECURSIVE objectSet(_, _, _)
objectSet(obj, key, value) ==
  IF obj = <<>> THEN <<[key |-> key, value |-> value]>>
  ELSE IF Head(obj).key = key
         THEN <<[key |-> key, value |-> value]>> \o Tail(obj)
  ELSE IF /\ key \in IntegerKeys
          /\ \/ Head(obj).key \notin IntegerKeys
             \/ keyNumber(key) < keyNumber(Head(obj).key)
         THEN <<[key |-> key, value |-> value]>> \o obj
  ELSE <<Head(obj)>> \o objectSet(Tail(obj), key, value)

\* the object that results from adding the properties props in order
RECURSIVE objectOf(_)
objectOf(props) ==
  IF props = <<>> THEN <<>>
  ELSE objectSet(objectOf(SubSeq(props, 1, Len(props) - 1)),
                 props[Len(props)].key, props[Len(props)].value)

\* Object.entries(promises)
objectEntries(obj) == obj

isArray(p) == p.kind = "array"

\* isArray(promises) ? promises.map(p => [null, p]) : Object.entries(promises)
allEntries(p) ==
  IF isArray(p)
    THEN [k \in 1..Len(p.props) |-> [key |-> Null, value |-> p.props[k].value]]
    ELSE objectEntries(p.props)

Pending == [settled |-> FALSE, result |-> Null, exc |-> Null, key |-> Null]

\* value.then(result => ({ result, exc: null, key }))
\*      .catch(exc => ({ result: null, exc, key }))
thenCatch(o, key) ==
  IF o.ok THEN [settled |-> TRUE, result |-> o.val, exc |-> Null, key |-> key]
          ELSE [settled |-> TRUE, result |-> Null, exc |-> o.val, key |-> key]

\* the call of all up to `await Promise.all(...)`
AllCall ==
  /\ apc = "idle"
  /\ entries' = allEntries(promises)
  /\ wrapped' = [k \in 1..Len(allEntries(promises)) |-> Pending]
  /\ apc' = "running"
  /\ UNCHANGED <<promises, asettled, aout, aerror, parallelVars, retryVars, deferVars, tryitVars>>

\* the k-th promise settles and its wrapper resolves
PromiseSettle(k) ==
  /\ apc = "running"
  /\ k \in 1..Len(entries)
  /\ ~wrapped[k].settled
  /\ wrapped' = [wrapped EXCEPT ![k] = thenCatch(entries[k].value, entries[k].key)]
  /\ asettled' = Append(asettled, k)
  /\ UNCHANGED <<promises, entries, apc, aout, aerror, parallelVars, retryVars, deferVars, tryitVars>>

\* (variant) the wait of a Promise.all over the promises themselves: over
\* as soon as one of them has failed
allSettledOrOneFailed(ws) ==
  \/ \A k \in 1..Len(ws) : ws[k].settled
  \/ \E k \in 1..Len(ws) : ws[k].settled /\ Truthy(ws[k].exc)

\* Promise.all(wrappers) is fulfilled once every wrapper has resolved
allSettled(ws) == \A k \in 1..Len(ws) : ws[k].settled

\* results.filter(r => r.exc)
RECURSIVE exceptionsOf(_)
exceptionsOf(results) ==
  IF results = <<>> THEN <<>>
  ELSE (IF Truthy(Head(results).exc) THEN <<Head(results)>> ELSE <<>>)
         \o exceptionsOf(Tail(results))

\* (variant) a reduce that forgets to spread the accumulator
reduceToObjectNoSpread(results) ==
  IF results = <<>> THEN <<>>
  ELSE <<[key |-> results[Len(results)].key, value |-> results[Len(results)].result]>>

\* results.reduce((acc, item) => ({ ...acc, [item.key]: item.result }), {})
RECURSIVE reduceToObject(_)
reduceToObject(results) ==
  IF results = <<>> THEN <<>>
  ELSE objectSet(reduceToObject(SubSeq(results, 1, Len(results) - 1)),
                 results[Len(results)].key, results[Len(results)].result)

\* exceptions.length > 0
hasExceptions(exceptions) == Len(exceptions) > 0

\* the rest of all, after `await Promise.all(...)`
AllFinish ==
  /\ apc = "running"
  /\ allSettled(wrapped)
  /\ LET results == wrapped
         exceptions == exceptionsOf(results)
     IN  IF hasExceptions(exceptions)
           THEN /\ apc' = "raised"
                /\ aerror' = AggregateError([k \in 1..Len(exceptions) |-> exceptions[k].exc])
                /\ aout' = aerror'.errors
           ELSE /\ apc' = "returned"
                /\ aout' = IF isArray(promises)
                             THEN [k \in 1..Len(results) |-> results[k].result]
                             ELSE reduceToObject(results)
                /\ UNCHANGED aerror
  /\ UNCHANGED <<promises, entries, wrapped, asettled, parallelVars, retryVars, deferVars, tryitVars>>

\* ------------------------------------------------------------------------
\* async.ts: retry
\* ------------------------------------------------------------------------
\* options?.times ?? 3
DefaultTimes == 3

\* the delay the model passes when it passes one, in milliseconds
DelayMs == 10

\* the backoff function the model passes when it passes one
backoffMs(count) == 100 * count

\* What a call of func may do: return a value ("ok"), throw an error value
\* ("fail"), or call exit(val) and let its throw propagate ("exit").
AttemptOutcomes ==
  [kind : {"ok"}, val : ResultVals]
    \cup [kind : {"fail"}, val : ErrorVals]
    \cup [kind : {"exit"}, val : {"e1", Undefined}]

\* A value retry handles: the object { _exited: val } thrown by exit
\* (exited = TRUE) or the plain value val.
Plain(val) == [exited |-> FALSE, val |-> val]
Exited(val) == [exited |-> TRUE, val |-> val]

\* tryit(func)(err => { throw { _exited: err } }) for an outcome of func
tryitAttempt(o) ==
  IF o.kind = "ok" THEN [error |-> Plain(Undefined), result |-> Plain(o.val)]
  ELSE IF o.kind = "fail" THEN [error |-> Plain(o.val), result |-> Plain(Undefined)]
  ELSE [error |-> Exited(o.val), result |-> Plain(Undefined)]

\* `!!err` and `err._exited` for a value retry handles: the thrown object
\* is truthy whatever it wraps, and only it has the property _exited
truthyError(err) == err.exited \/ Truthy(err.val)
exitedOf(err) == IF err.exited THEN err.val ELSE Undefined

timesOf(opts) == IF opts.times = <<>> THEN DefaultTimes ELSE opts.times[1]

\* the head of the for-of loop: the generator yields the next i and func
\* is called, or the generator is exhausted and retry returns undefined
retryIterate(it, n) ==
  IF it = <<>>
    THEN [rpc |-> "returned", rout |-> Plain(Undefined), iter |-> it,
          ri |-> 0, attempts |-> n]
    ELSE [rpc |-> "attempting", rout |-> Plain(Undefined), iter |-> Tail(it),
          ri |-> Head(it), attempts |-> n + 1]

\* the call of retry up to the first `await tryit(func)(...)`
RetryCall ==
  /\ rpc = "idle"
  /\ LET t == retryIterate(range(1, timesOf(options)), 0)
     IN  /\ rpc' = t.rpc
         /\ rout' = t.rout
         /\ iter' = t.iter
         /\ ri' = IF t.rpc = "attempting" THEN t.ri ELSE ri
         /\ attempts' = t.attempts
  /\ UNCHANGED <<options, script, sleeps, parallelVars, allVars, deferVars, tryitVars>>

\* What the loop body does once the attempt has settled with [err, result]:
\* "return", "throwExited", "throw", "sleepDelay", "sleepBackoff" or "next".
afterAttempt(err, i, opts) ==
  IF ~truthyError(err) THEN "return"
  ELSE IF Truthy(exitedOf(err)) THEN "throwExited"
  ELSE IF i = timesOf(opts) THEN "throw"
  ELSE IF opts.delay # <<>> /\ opts.delay[1] # 0 THEN "sleepDelay"
  ELSE IF opts.backoff THEN "sleepBackoff"
  ELSE "next"

\* the awaited attempt settles and the loop body runs up to its next await
AttemptSettle ==
  /\ rpc = "attempting"
  /\ LET r == tryitAttempt(script[attempts])
         step == afterAttempt(r.error, ri, options)
         t == retryIterate(iter, attempts)
     IN  CASE step = "return" ->
                /\ rpc' = "returned"
                /\ rout' = r.result
                /\ UNCHANGED <<iter, ri, attempts, sleeps>>
           [] step = "throwExited" ->
                /\ rpc' = "raised"
                /\ rout' = Plain(exitedOf(r.error))
                /\ UNCHANGED <<iter, ri, attempts, sleeps>>
           [] step = "throw" ->
                /\ rpc' = "raised"
                /\ rout' = r.error
                /\ UNCHANGED <<iter, ri, attempts, sleeps>>
           [] step = "sleepDelay" ->
                /\ rpc' = "sleepDelay"
                /\ sleeps' = Append(sleeps, [after |-> attempts, ms |-> options.delay[1]])
                /\ UNCHANGED <<iter, ri, attempts, rout>>
           [] step = "sleepBackoff" ->
                /\ rpc' = "sleepBackoff"
                /\ sleeps' = Append(sleeps, [after |-> attempts, ms |-> backoffMs(ri)])
                /\ UNCHANGED <<iter, ri, attempts, rout>>
           [] OTHER ->
                /\ rpc' = t.rpc
                /\ rout' = t.rout
                /\ iter' = t.iter
                /\ ri' = IF t.rpc = "attempting" THEN t.ri ELSE ri
                /\ attempts' = t.attempts
                /\ UNCHANGED sleeps
  /\ UNCHANGED <<options, script, parallelVars, allVars, deferVars, tryitVars>>

\* `await sleep(delay)` is over: the backoff sleep begins if there is a
\* backoff, otherwise the loop goes round
DelayOver ==
  /\ rpc = "sleepDelay"
  /\ LET t == retryIterate(iter, attempts)
     IN  IF options.backoff
           THEN /\ rpc' = "sleepBackoff"
                /\ sleeps' = Append(sleeps, [after |-> attempts, ms |-> backoffMs(ri)])
                /\ UNCHANGED <<iter, ri, attempts, rout>>
           ELSE /\ rpc' = t.rpc
                /\ rout' = t.rout
                /\ iter' = t.iter
                /\ ri' = IF t.rpc = "attempting" THEN t.ri ELSE ri
                /\ attempts' = t.attempts
                /\ UNCHANGED sleeps
  /\ UNCHANGED <<options, script, parallelVars, allVars, deferVars, tryitVars>>

\* `await sleep(backoff(i))` is over: the loop goes round
BackoffOver ==
  /\ rpc = "sleepBackoff"
  /\ LET t == retryIterate(iter, attempts)
     IN  /\ rpc' = t.rpc
         /\ rout' = t.rout
         /\ iter' = t.iter
         /\ ri' = IF t.rpc = "attempting" THEN t.ri ELSE ri
         /\ attempts' = t.attempts
  /\ UNCHANGED <<options, script, sleeps, parallelVars, allVars, deferVars, tryitVars>>

\* ------------------------------------------------------------------------
\* async.ts: defer
\* ------------------------------------------------------------------------
\* What a registered callback does when it is called: it succeeds ("ok"),
\* fails with an error of its own ("fail") or fails with undefined
\* ("failFalsy"); adds tells whether it registers one more callback, through
\* the register function of the body, while it runs.
CallbackFns == [result : {"ok", "fail", "failFalsy"}, adds : BOOLEAN]

\* the error a failing callback fails with, by its position in callbacks
callbackErrors == <<"c1", "c2", "c3", "c4", "c5", "c6", "c7", "c8", "c9", "c10">>

\* the outcome of the call of the callback at position k
callbackOutcome(k, fn) ==
  IF fn.result = "ok" THEN [ok |-> TRUE, val |-> "done"]
  ELSE IF fn.result = "fail" THEN [ok |-> FALSE, val |-> callbackErrors[k]]
  ELSE [ok |-> FALSE, val |-> Undefined]

\* the callback a callback registers
AddedFn == [result |-> "ok", adds |-> FALSE]

\* callbacks.push({ fn, rethrow: options?.rethrow ?? false })
register(cbs, fn, rethrow) == Append(cbs, [fn |-> fn, rethrow |-> rethrow])

\* the call of defer: tryit(func)(register) starts the body
DeferCall ==
  /\ dpc = "idle"
  /\ dpc' = "body"
  /\ callbacks' = <<>>
  /\ UNCHANGED <<dbody, dregs, dpair, dpos, dlog, dout,
                 parallelVars, allVars, retryVars, tryitVars>>

\* the body registers its next callback
BodyRegister ==
  /\ dpc = "body"
  /\ Len(callbacks) < Len(dregs)
  /\ LET reg == dregs[Len(callbacks) + 1]
     IN  callbacks' = register(callbacks, reg.fn, reg.rethrow)
  /\ UNCHANGED <<dbody, dregs, dpair, dpos, dlog, dpc, dout,
                 parallelVars, allVars, retryVars, tryitVars>>

\* (variant) an iteration that takes the callbacks last registered first
nextCallbackLastFirst(pos, cbs) ==
  IF pos = 0 THEN Len(cbs) ELSE pos - 1

\* `for (... of callbacks)`: the position after pos (0 before the first),
\* or 0 when the iteration is over
nextCallback(pos, cbs) ==
  IF pos < Len(cbs) THEN pos + 1 ELSE 0

\* The loop of defer from the callback after pos up to the next await, and
\* the end of defer if there is none: the callback is called (and may
\* register another one), or defer throws err or returns response.
deferIterate(pos, cbs, pair, log) ==
  LET next == nextCallback(pos, cbs)
  IN  IF next # 0
        THEN [dpc |-> "callback", dpos |-> next,
              callbacks |-> IF cbs[next].fn.adds
                              THEN register(cbs, AddedFn, FALSE) ELSE cbs,
              dlog |-> Append(log, [ev |-> "start", cb |-> next]),
              dout |-> Undefined]
        ELSE [dpc |-> IF Truthy(pair.error) THEN "raised" ELSE "returned",
              dpos |-> pos, callbacks |-> cbs, dlog |-> log,
              dout |-> IF Truthy(pair.error) THEN pair.error ELSE pair.result]

\* the body settles: `await tryit(func)(register)` yields [err, response]
\* and the loop over the callbacks begins
BodySettle ==
  /\ dpc = "body"
  /\ Len(callbacks) = Len(dregs)
  /\ LET pair == tryit(dbody)
         t == deferIterate(0, callbacks, pair,
                           Append(dlog, [ev |-> "body", cb |-> 0]))
     IN  /\ dpair' = pair
         /\ dpc' = t.dpc
         /\ dpos' = t.dpos
         /\ callbacks' = t.callbacks
         /\ dlog' = t.dlog
         /\ dout' = t.dout
  /\ UNCHANGED <<dbody, dregs, parallelVars, allVars, retryVars, tryitVars>>

\* the running callback settles: `await tryit(fn)(err)` yields [rethrown];
\* defer throws it if it is truthy and the callback has rethrow, otherwise
\* the loop goes on
CallbackSettle ==
  /\ dpc = "callback"
  /\ LET r == tryit(callbackOutcome(dpos, callbacks[dpos].fn))
         log == Append(dlog, [ev |-> "settle", cb |-> dpos])
         t == deferIterate(dpos, callbacks, dpair, log)
     IN  IF Truthy(r.error) /\ callbacks[dpos].rethrow
           THEN /\ dpc' = "raised"
                /\ dout' = r.error
                /\ dlog' = log
                /\ UNCHANGED <<dpos, callbacks>>
           ELSE /\ dpc' = t.dpc
                /\ dpos' = t.dpos
                /\ callbacks' = t.callbacks
                /\ dlog' = t.dlog
                /\ dout' = t.dout
  /\ UNCHANGED <<dbody, dregs, dpair, parallelVars, allVars, retryVars, tryitVars>>

\* ------------------------------------------------------------------------
\* async.ts: tryit, as a call of its own
\* ------------------------------------------------------------------------
\* whether func() handed back a promise
isPromise(f) == f.async

\* The call tryit(func)(...args) up to its return: func is called once; a
\* synchronous throw is caught into [err, undefined], a plain result is
\* returned as [undefined, result], and a promise is returned with then and
\* catch attached.
TryitCall ==
  /\ tpc = "idle"
  /\ tcalls' = tcalls + 1
  /\ IF isPromise(tfunc)
       THEN /\ tpc' = "pending"
            /\ UNCHANGED tout
       ELSE /\ tpc' = "yielded"
            /\ tout' = tryit(tfunc.outcome)
  /\ UNCHANGED <<tfunc, parallelVars, allVars, retryVars, deferVars>>

\* the promise of func settles: .then(value => [undefined, value]) or
\* .catch(err => [err, undefined])
TryitSettle ==
  /\ tpc = "pending"
  /\ tpc' = "yielded"
  /\ tout' = tryit(tfunc.outcome)
  /\ UNCHANGED <<tfunc, tcalls, parallelVars, allVars, retryVars, deferVars>>

\* ------------------------------------------------------------------------
\* Specification
\* ------------------------------------------------------------------------
RECURSIVE SeqsUpTo(_, _)
SeqsUpTo(S, n) ==
  IF n = 0 THEN {<<>>}
  ELSE LET shorter == SeqsUpTo(S, n - 1)
       IN  shorter \cup {Append(s, x) : s \in {t \in shorter : Len(t) = n - 1}, x \in S}

\* the state of parallel when no call of parallel is modelled
ParallelOff ==
  /\ limit = 1
  /\ array = <<>>
  /\ func = <<>>
  /\ work = <<>>
  /\ queues = <<>>
  /\ calls = <<>>
  /\ settled = <<>>
  /\ ppc = "off"
  /\ pout = <<>>
  /\ perror = NoError

\* the state of all when no call of all is modelled
AllOff ==
  /\ promises = [kind |-> "array", props |-> <<>>]
  /\ entries = <<>>
  /\ wrapped = <<>>
  /\ asettled = <<>>
  /\ apc = "off"
  /\ aout = <<>>
  /\ aerror = NoError

\* the state of retry when no call of retry is modelled
RetryOff ==
  /\ options = [times |-> <<>>, delay |-> <<>>, backoff |-> FALSE]
  /\ script = <<>>
  /\ iter = <<>>
  /\ ri = 0
  /\ attempts = 0
  /\ sleeps = <<>>
  /\ rpc = "off"
  /\ rout = [exited |-> FALSE, val |-> Undefined]

\* the state of defer when no call of defer is modelled
DeferOff ==
  /\ dbody = [ok |-> TRUE, val |-> "v1"]
  /\ dregs = <<>>
  /\ callbacks = <<>>
  /\ dpair = [error |-> Undefined, result |-> Undefined]
  /\ dpos = 0
  /\ dlog = <<>>
  /\ dpc = "off"
  /\ dout = Undefined

\* the state of tryit when no call of tryit is modelled
TryitOff ==
  /\ tfunc = [async |-> FALSE, outcome |-> [ok |-> TRUE, val |-> "v1"]]
  /\ tcalls = 0
  /\ tpc = "off"
  /\ tout = [error |-> Undefined, result |-> Undefined]

\* a call parallel(limit, array, func)
InitParallel ==
  /\ limit \in -1..MaxLimit
  /\ array \in SeqsUpTo(Items, MaxLen)
  /\ func \in [1..Len(array) -> Outcomes]
  /\ work = <<>>
  /\ queues = <<>>
  /\ calls = <<>>
  /\ settled = <<>>
  /\ ppc = "idle"
  /\ pout = <<>>
  /\ perror = NoError
  /\ AllOff
  /\ RetryOff
  /\ DeferOff
  /\ TryitOff

\* the sequences without repetition of at most n elements of S
DistinctSeqsUpTo(S, n) ==
  {s \in SeqsUpTo(S, n) : \A i, j \in 1..Len(s) : i # j => s[i] # s[j]}

\* the key of position k of a list
positionKeys == <<"0", "1", "2", "3", "4", "5">>

\* a call all(promises) on a list of promises or on an object of promises,
\* the object's properties being the result of adding them in some order
InitAll ==
  /\ \E outs \in UNION {[1..n -> Outcomes] : n \in 0..MaxLen} :
       \/ promises = [kind |-> "array",
                      props |-> [k \in 1..Len(outs) |->
                                   [key |-> positionKeys[k], value |-> outs[k]]]]
       \/ \E ks \in {s \in DistinctSeqsUpTo(Keys, MaxLen) : Len(s) = Len(outs)} :
            promises = [kind |-> "object",
                        props |-> objectOf([k \in 1..Len(outs) |->
                                              [key |-> ks[k], value |-> outs[k]]])]
  /\ entries = <<>>
  /\ wrapped = <<>>
  /\ asettled = <<>>
  /\ apc = "idle"
  /\ aout = <<>>
  /\ aerror = NoError
  /\ ParallelOff
  /\ RetryOff
  /\ DeferOff
  /\ TryitOff

NextParallel ==
  \/ ParallelCall
  \/ \E w \in 1..Len(queues) : ProcessorResume(w)
  \/ ParallelFinish

SpecParallel == InitParallel /\ [][NextParallel]_vars

\* parallel under the scheduling its termination depends on: the call is
\* made, every invocation a processor awaits settles at some time, and the
\* continuation of a fulfilled Promise.all is run
FairParallel ==
  /\ WF_vars(ParallelCall)
  /\ \A w \in 1..MaxLimit : WF_vars(ProcessorResume(w))
  /\ WF_vars(ParallelFinish)

\* The calls termination is checked on: every limit, every length of the
\* input, and for each item a success, a failure and a failure with a
\* falsy error. parallel looks neither at an item nor at a result, so one
\* item value and one result value stand for all.
InitParallelFair ==
  /\ InitParallel
  /\ \A k \in 1..Len(array) :
       /\ array[k] = "a"
       /\ func[k] \in {[ok |-> TRUE, val |-> "v1"], [ok |-> FALSE, val |-> "e1"],
                       [ok |-> FALSE, val |-> Undefined]}

SpecParallelFair == InitParallelFair /\ [][NextParallel]_vars /\ FairParallel

NextAll ==
  \/ AllCall
  \/ \E k \in 1..Len(entries) : PromiseSettle(k)
  \/ AllFinish

SpecAll == InitAll /\ [][NextAll]_vars

\* the calls of func the script has to cover: one more than retry can make
ScriptLen == (IF MaxTimes > DefaultTimes THEN MaxTimes ELSE DefaultTimes) + 1

\* a call retry(options, func)
InitRetry ==
  /\ options \in [times : {<<>>} \cup {<<n>> : n \in -1..MaxTimes},
                  delay : {<<>>, <<DelayMs>>},
                  backoff : BOOLEAN]
  /\ script \in [1..ScriptLen -> AttemptOutcomes]
  /\ iter = <<>>
  /\ ri = 0
  /\ attempts = 0
  /\ sleeps = <<>>
  /\ rpc = "idle"
  /\ rout = Plain(Undefined)
  /\ ParallelOff
  /\ AllOff
  /\ DeferOff
  /\ TryitOff

NextRetry ==
  \/ RetryCall
  \/ AttemptSettle
  \/ DelayOver
  \/ BackoffOver

SpecRetry == InitRetry /\ [][NextRetry]_vars

\* a call defer(func) whose body registers the callbacks dregs, one by
\* one, and then settles with dbody
InitDefer ==
  /\ dbody \in {[ok |-> TRUE, val |-> "v1"], [ok |-> FALSE, val |-> "e1"],
                [ok |-> FALSE, val |-> Undefined]}
  /\ dregs \in SeqsUpTo([fn : CallbackFns, rethrow : BOOLEAN], MaxCallbacks)
  /\ callbacks = <<>>
  /\ dpair = [error |-> Undefined, result |-> Undefined]
  /\ dpos = 0
  /\ dlog = <<>>
  /\ dpc = "idle"
  /\ dout = Undefined
  /\ ParallelOff
  /\ AllOff
  /\ RetryOff
  /\ TryitOff

NextDefer ==
  \/ DeferCall
  \/ BodyRegister
  \/ BodySettle
  \/ CallbackSettle

SpecDefer == InitDefer /\ [][NextDefer]_vars

\* a call tryit(func)()
InitTryit ==
  /\ tfunc \in [async : BOOLEAN, outcome : Outcomes]
  /\ tcalls = 0
  /\ tpc = "idle"
  /\ tout = [error |-> Undefined, result |-> Undefined]
  /\ ParallelOff
  /\ AllOff
  /\ RetryOff
  /\ DeferOff

NextTryit ==
  \/ TryitCall
  \/ TryitSettle

SpecTryit == InitTryit /\ [][NextTryit]_vars

\* a call of parallel or a call of all: the two that raise AggregateError
InitAggregate == InitParallel \/ InitAll

NextAggregate == NextParallel \/ NextAll

SpecAggregate == InitAggregate /\ [][NextAggregate]_vars

Init == InitParallel \/ InitAll \/ InitRetry \/ InitDefer \/ InitTryit

Next == NextParallel \/ NextAll \/ NextRetry \/ NextDefer \/ NextTryit

Spec == Init /\ [][Next]_vars
\* ------------------------------------------------------------------------
\* Properties of parallel
\* ------------------------------------------------------------------------
parallelDone == ppc \in {"returned", "raised"}

\* the indexes of the input list, as the code numbers them
indexes == 0..(Len(array) - 1)

\* how many times func was started on the item at index i
started(i) == Cardinality({k \in 1..Len(calls) : calls[k] = i})

everyInvocationSucceeds == \A k \in 1..Len(array) : func[k].ok

\* C1: with limit >= 1 and every invocation succeeding, whatever the order
\* of completion, parallel returns a list as long as the input whose i-th
\* element is func's result for the i-th item.
C1_ResultsInInputOrder ==
  (limit >= 1 /\ parallelDone /\ everyInvocationSucceeds)
    => /\ ppc = "returned"
       /\ Len(pout) = Len(array)
       /\ \A k \in 1..Len(array) : pout[k] = func[k].val

\* a run of three items on two processors whose invocations completed in
\* the order 1, 0, 2, with different results at either end
C1_Witness ==
  /\ ppc = "returned"
  /\ limit = 2
  /\ settled = <<1, 0, 2>>
  /\ everyInvocationSucceeds
  /\ func[1].val # func[3].val

\* C2: with limit >= 1 func is never started twice on an item, and when
\* parallel is over it has been started exactly once on every item.
C2_EachItemOnce ==
  limit >= 1
    => /\ \A i \in indexes : started(i) <= 1
       /\ parallelDone => \A i \in indexes : started(i) = 1

C2_Witness ==
  /\ parallelDone
  /\ limit = 2
  /\ Len(array) = 3
  /\ Len(calls) = 3

\* C3: with limit >= 1 the invocations started and not yet settled are at
\* most limit.
C3_AtMostLimitInFlight ==
  limit >= 1 => Len(calls) - Len(settled) <= limit

\* the limit binds: three items for two processors, one invocation has
\* settled and two are in flight
C3_Witness ==
  /\ limit = 2
  /\ Len(array) = 3
  /\ Len(settled) = 1
  /\ Len(calls) - Len(settled) = 2

\* C4: a failed invocation stops no processor: while items are left in the
\* pool every processor is busy, and when parallel raises, func has been
\* started on every item.
C4_FailureStopsNobody ==
  limit >= 1
    => /\ (ppc = "running" /\ work # <<>>)
            => \A w \in 1..Len(queues) : queues[w].status = "awaiting"
       /\ ppc = "raised" => \A i \in indexes : started(i) >= 1

\* the first invocation to settle failed and two more items were started
\* afterwards by the same processor
C4_Witness ==
  /\ ppc = "raised"
  /\ limit = 1
  /\ Len(array) = 3
  /\ ~func[3].ok /\ Truthy(func[3].val)
  /\ calls = <<2, 1, 0>>

\* C7: with limit >= 1 parallel neither returns nor raises while an item
\* is in the pool or its invocation has not settled.
C7_SettlesAfterEveryItem ==
  (limit >= 1 /\ parallelDone)
    => /\ work = <<>>
       /\ Len(settled) = Len(array)
       /\ \A i \in indexes : \E k \in 1..Len(settled) : settled[k] = i

\* parallel raised; the failure settled first, two siblings settled later
C7_Witness ==
  /\ ppc = "raised"
  /\ limit = 2
  /\ Len(settled) = 3
  /\ ~func[settled[1] + 1].ok /\ Truthy(func[settled[1] + 1].val)
  /\ func[settled[2] + 1].ok /\ func[settled[3] + 1].ok
\* the errors of the failed invocations, ordered by the items' index
RECURSIVE failuresFrom(_)
failuresFrom(k) ==
  IF k > Len(array) THEN <<>>
  ELSE (IF func[k].ok THEN <<>> ELSE <<func[k].val>>) \o failuresFrom(k + 1)

\* C5: if k >= 1 items fail, parallel raises an AggregateError whose errors
\* are exactly the k failures, ordered by the items' index.
C5_AllFailuresAggregated ==
  (limit >= 1 /\ parallelDone /\ ~everyInvocationSucceeds)
    => /\ ppc = "raised"
       /\ pout = failuresFrom(1)

\* what parallel ended with, in the form of Outcome
parallelOutcome == Outcome(ppc, ppc = "raised", pout)

\* C8 as stated: with limit = 1 and a non-empty input the outcome of
\* parallel is the outcome of the sequential map.
C8_OutcomeEqualsMap ==
  (limit = 1 /\ Len(array) >= 1 /\ parallelDone)
    => parallelOutcome = map(array, func)

\* C8: with limit = 1, a non-empty input and every invocation succeeding,
\* the list parallel returns is the list the sequential map returns.
C8_ResultEqualsMap ==
  (limit = 1 /\ Len(array) >= 1 /\ parallelDone /\ everyInvocationSucceeds)
    => parallelOutcome = map(array, func)

\* three items handled one at a time, last item first, results differing
C8_Witness ==
  /\ ppc = "returned"
  /\ limit = 1
  /\ calls = <<2, 1, 0>>
  /\ everyInvocationSucceeds
  /\ func[1].val # func[3].val
  /\ map(array, func).kind = "returned"
\* ------------------------------------------------------------------------
\* Properties of parallel and all
\* ------------------------------------------------------------------------
allDone == apc \in {"returned", "raised"}

elements(seq) == {seq[k] : k \in 1..Len(seq)}

\* C6: parallel and all return values only when nothing failed: if an
\* invocation (parallel) or an operation (all) fails, with whatever error
\* value, the call raises an AggregateError that contains that failure.
C6_EveryFailureRaised ==
  /\ (limit >= 1 /\ parallelDone)
       => \A k \in 1..Len(array) :
            ~func[k].ok => (ppc = "raised" /\ func[k].val \in elements(pout))
  /\ allDone
       => \A k \in 1..Len(promises.props) :
            ~promises.props[k].value.ok
              => (apc = "raised" /\ promises.props[k].value.val \in elements(aout))
\* ------------------------------------------------------------------------
\* Properties of retry
\* ------------------------------------------------------------------------
retryDone == rpc \in {"returned", "raised"}

\* the script fails ordinarily on attempts 1..k-1 and succeeds on attempt k
firstSuccessAt(k) ==
  /\ script[k].kind = "ok"
  /\ \A j \in 1..(k - 1) : script[j].kind = "fail"

\* C9: if func fails ordinarily on attempts 1..k-1 and succeeds on attempt
\* k, 1 <= k <= times, retry returns the value of attempt k and func has
\* been called exactly k times, never more.
C9_ReturnsFirstSuccess ==
  \A k \in 1..ScriptLen :
    (k <= timesOf(options) /\ firstSuccessAt(k))
      => /\ attempts <= k
         /\ retryDone => /\ rpc = "returned"
                         /\ rout = Plain(script[k].val)
                         /\ attempts = k

everyAttemptFails == \A j \in 1..ScriptLen : script[j].kind = "fail"

\* C10: with times = n >= 1 (3 by default) and every attempt failing
\* ordinarily, func is called exactly n times, never n + 1 times, and retry
\* raises the failure of the n-th attempt itself.
C10_RaisesLastFailure ==
  (timesOf(options) >= 1 /\ everyAttemptFails)
    => /\ attempts <= timesOf(options)
       /\ retryDone => /\ rpc = "raised"
                       /\ rout = Plain(script[timesOf(options)].val)
                       /\ attempts = timesOf(options)
\* attempt i has been made and has settled
attemptSettled(i) == i <= attempts /\ (i < attempts \/ rpc # "attempting")

\* C11: if func calls exit(err) during attempt i, whatever err is, retry
\* makes no further attempt, begins no sleep after that attempt, and raises
\* exactly err.
C11_ExitRaisesAtOnce ==
  \A i \in 1..ScriptLen :
    (attemptSettled(i) /\ script[i].kind = "exit")
      => /\ rpc = "raised"
         /\ rout = Plain(script[i].val)
         /\ attempts = i
         /\ \A k \in 1..Len(sleeps) : sleeps[k].after < i

\* C12: retry returns a value only from an attempt that did not fail: when
\* it returns after some attempt, the last attempt succeeded and its value
\* is what retry returns.
C12_ReturnsOnlySuccess ==
  (rpc = "returned" /\ attempts >= 1)
    => /\ script[attempts].kind = "ok"
       /\ rout = Plain(script[attempts].val)
\* ------------------------------------------------------------------------
\* Properties of all
\* ------------------------------------------------------------------------
\* the operations given to all, in the order of the input
operations == [k \in 1..Len(promises.props) |-> promises.props[k].value]

everyOperationSucceeds == \A k \in 1..Len(operations) : operations[k].ok

\* the errors of the failed operations, in the order of the input
RECURSIVE operationFailuresFrom(_)
operationFailuresFrom(k) ==
  IF k > Len(operations) THEN <<>>
  ELSE (IF operations[k].ok THEN <<>> ELSE <<operations[k].val>>)
         \o operationFailuresFrom(k + 1)

\* C17: when operations fail, all raises an AggregateError whose errors are
\* exactly the failures of the failed operations, in the order of the input.
C17_AllFailuresInInputOrder ==
  (allDone /\ ~everyOperationSucceeds)
    => /\ apc = "raised"
       /\ aout = operationFailuresFrom(1)

\* C18: all neither returns nor raises before every operation has settled.
C18_SettlesAfterEveryOperation ==
  allDone
    => /\ Len(wrapped) = Len(operations)
       /\ \A k \in 1..Len(wrapped) : wrapped[k].settled
       /\ Len(asettled) = Len(operations)

\* all raised; the failure settled first and two siblings settled after it
C18_Witness ==
  /\ apc = "raised"
  /\ Len(asettled) = 3
  /\ ~operations[asettled[1]].ok /\ Truthy(operations[asettled[1]].val)
  /\ operations[asettled[2]].ok /\ operations[asettled[3]].ok

\* C19: when every operation succeeds, all returns a container of the
\* shape of the input: a list whose k-th element is the value of the k-th
\* operation, or an object with the same keys, each holding the value of
\* its operation.
C19_ResultHasInputShape ==
  (allDone /\ everyOperationSucceeds)
    => /\ apc = "returned"
       /\ Len(aout) = Len(operations)
       /\ isArray(promises)
            => \A k \in 1..Len(operations) : aout[k] = operations[k].val
       /\ ~isArray(promises)
            => \A k \in 1..Len(operations) :
                 \E j \in 1..Len(aout) :
                   /\ aout[j].key = promises.props[k].key
                   /\ aout[j].value = operations[k].val

\* an object of three operations, settled last key first, with different
\* values at either end
C19_Witness ==
  /\ apc = "returned"
  /\ ~isArray(promises)
  /\ everyOperationSucceeds
  /\ asettled = <<3, 2, 1>>
  /\ operations[1].val # operations[3].val
\* ------------------------------------------------------------------------
\* Properties of defer
\* ------------------------------------------------------------------------
deferDone == dpc \in {"returned", "raised"}

Started(k) == [ev |-> "start", cb |-> k]
Settled(k) == [ev |-> "settle", cb |-> k]

\* the callback at position k has been called and has settled
callbackRan(k) == \E j \in 1..Len(dlog) : dlog[j] = Settled(k)

\* how many times the callback at position k was called
callbackStarts(k) == Cardinality({j \in 1..Len(dlog) : dlog[j] = Started(k)})

\* C13: no callback starts before the body has settled; after that the
\* callbacks run one at a time in the order of their registration, each
\* starting only after the previous one has settled.
C13_CallbacksInOrderAfterBody ==
  IF dpc \in {"off", "idle", "body"}
    THEN dlog = <<>>
    ELSE /\ dlog[1] = [ev |-> "body", cb |-> 0]
         /\ \A j \in 2..Len(dlog) :
              dlog[j] = IF j % 2 = 0 THEN Started(j \div 2)
                                     ELSE Settled((j - 1) \div 2)

\* three callbacks registered by a body that failed; all three have run
C13_Witness ==
  /\ deferDone
  /\ ~dbody.ok /\ Truthy(dbody.val)
  /\ Len(dregs) = 3
  /\ Len(callbacks) = 3
  /\ Len(dlog) = 7

\* C14: every callback the body registered is executed exactly once before
\* defer returns or raises, whatever the outcomes and the rethrow flags of
\* the callbacks before it.
C14_EveryCallbackRunsOnce ==
  deferDone => \A k \in 1..Len(dregs) : callbackStarts(k) = 1

\* C15: if a callback registered with rethrow: true fails while the body
\* has failed too, defer raises the failure of that callback, not the
\* failure of the body.
C15_RethrowOverridesBody ==
  \A k \in 1..Len(callbacks) :
    (/\ deferDone
     /\ ~dbody.ok
     /\ callbackRan(k)
     /\ callbacks[k].rethrow
     /\ ~callbackOutcome(k, callbacks[k].fn).ok)
      => /\ dpc = "raised"
         /\ dout = callbackOutcome(k, callbacks[k].fn).val

\* a callback registered with rethrow: true has run and has failed
rethrowCallbackFailed ==
  \E k \in 1..Len(callbacks) :
    /\ callbackRan(k)
    /\ callbacks[k].rethrow
    /\ ~callbackOutcome(k, callbacks[k].fn).ok

\* C16: if no callback registered with rethrow: true fails, defer ends as
\* its body did: it raises the body's failure or returns the body's value,
\* even when callbacks registered without rethrow fail.
C16_OutcomeOfBody ==
  (deferDone /\ ~rethrowCallbackFailed)
    => IF dbody.ok THEN dpc = "returned" /\ dout = dbody.val
                   ELSE dpc = "raised" /\ dout = dbody.val
\* ------------------------------------------------------------------------
\* Properties of tryit
\* ------------------------------------------------------------------------
\* C20: tryit never lets a failure of func through, calls func exactly
\* once, and yields [undefined, value] when func succeeded and
\* [error, undefined] when it failed, the error component being present
\* exactly when func failed.
C20_PairTellsFailure ==
  /\ tpc # "raised"
  /\ tcalls <= 1
  /\ tpc \in {"pending", "yielded"} => tcalls = 1
  /\ tpc = "yielded"
       => /\ tfunc.outcome.ok
               => tout = [error |-> Undefined, result |-> tfunc.outcome.val]
          /\ ~tfunc.outcome.ok
               => tout = [error |-> tfunc.outcome.val, result |-> Undefined]
          /\ (tout.error # Undefined) <=> ~tfunc.outcome.ok
\* ------------------------------------------------------------------------
\* AggregateError
\* ------------------------------------------------------------------------
\* the message of an AggregateError states n errors
statesCount(e, n) == e.message = <<"AggregateError with ", n, " errors">>

\* C21: every AggregateError raised by parallel or by all has a non-empty
\* errors list, and its message states the number of errors in that list.
C21_AggregateErrorCounted ==
  /\ ppc = "raised"
       => Len(perror.errors) > 0 /\ statesCount(perror, Len(perror.errors))
  /\ apc = "raised"
       => Len(aerror.errors) > 0 /\ statesCount(aerror, Len(aerror.errors))

\* parallel raised an AggregateError of two errors out of three items
C21_Witness ==
  /\ ppc = "raised"
  /\ Len(array) = 3
  /\ Len(perror.errors) = 2
  /\ statesCount(perror, 2)

\* ------------------------------------------------------------------------
\* parallel: the processors and the pool
\* ------------------------------------------------------------------------
parallelCalled == ppc \in {"running", "returned", "raised"}

\* C23: for limit >= 1 parallel spawns exactly limit processors, also when
\* the input has fewer items; a processor that finds the pool empty on its
\* first pop is done with no result; on an empty input func is never
\* invoked and parallel returns an empty list.
C23_SpawnsLimitWorkers ==
  (limit >= 1 /\ parallelCalled)
    => /\ Len(queues) = limit
       /\ \A w \in 1..Len(queues) :
            w > Len(array) => /\ queues[w].status = "done"
                              /\ queues[w].results = <<>>
       /\ array = <<>> => /\ calls = <<>>
                          /\ parallelDone => ppc = "returned" /\ pout = <<>>

\* an empty input and a limit of two: two processors, both done with no
\* result, and an empty list returned
C23_Witness ==
  /\ limit = 2
  /\ array = <<>>
  /\ ppc = "returned"
  /\ pout = <<>>
  /\ Len(queues) = 2
  /\ \A w \in 1..2 : queues[w].status = "done" /\ queues[w].results = <<>>

\* C25: items are handed out in descending index order: the k-th
\* invocation started is on the k-th index from the end, so no item is
\* started before every item of a larger index; with limit = 1 a finished
\* run has invoked func on the items in exactly reverse input order.
C25_DescendingStarts ==
  /\ \A k \in 1..Len(calls) : calls[k] = Len(array) - k
  /\ (limit = 1 /\ parallelDone) => Len(calls) = Len(array)

\* one processor has gone through three items, last index first
C25_Witness ==
  /\ limit = 1
  /\ parallelDone
  /\ calls = <<2, 1, 0>>
  /\ settled = <<2, 1, 0>>

\* C26: for every limit >= 1 and every input, when every invocation of
\* func settles at some time, parallel settles at some time.
C26_ParallelSettles == (limit >= 1 /\ ppc = "idle") ~> parallelDone

\* a run of two processors over three items that has settled
C26_Witness ==
  /\ limit = 2
  /\ Len(array) = 3
  /\ parallelDone
  /\ Len(settled) = 3
  /\ \A w \in 1..2 : queues[w].status = "done"

\* the number of processors parallel spawns for a limit
workersFor(l) == IF l >= 1 THEN l ELSE IF l = 0 THEN 1 ELSE 0

C30_InputUnchanged == [][array' = array]_vars

\* a failed run over three items, the pool used up, the input still there
C30_Witness ==
  /\ ppc = "raised"
  /\ Len(array) = 3
  /\ Len(func) = Len(array)
  /\ work = <<>>
  /\ Len(settled) = 3

\* ------------------------------------------------------------------------
\* retry: the sleeps and the bounds of times
\* ------------------------------------------------------------------------
\* the durations of the sleeps begun after attempt j, in order
sleepsAfter(j) ==
  LET after == SelectSeq(sleeps, LAMBDA s : s.after = j)
  IN  [k \in 1..Len(after) |-> after[k].ms]

\* the sleeps due between a failed attempt j and the next attempt: the
\* delay when one is set, then backoff(j) when a backoff is set
sleepsDue(j) ==
  (IF options.delay # <<>> THEN <<options.delay[1]>> ELSE <<>>)
    \o (IF options.backoff THEN <<backoffMs(j)>> ELSE <<>>)

isPrefix(a, b) == Len(a) <= Len(b) /\ a = SubSeq(b, 1, Len(a))

\* C22: after an ordinary failure of attempt j, j < times, the next attempt
\* starts only after a sleep of delay (when set) followed by a sleep of
\* backoff(j) (when set); no sleep begins after a successful attempt,
\* after an exit, or after the failure of the last allowed attempt.
C22_SleepsBetweenAttempts ==
  \A j \in 1..attempts :
    IF script[j].kind = "fail" /\ j < timesOf(options)
      THEN /\ isPrefix(sleepsAfter(j), sleepsDue(j))
           /\ j < attempts => sleepsAfter(j) = sleepsDue(j)
      ELSE sleepsAfter(j) = <<>>

\* C28: with times = 0 retry makes exactly one attempt and raises the
\* failure of that attempt if it fails; with times < 0 it makes no attempt
\* and returns undefined without raising.
C28_TimesZeroOrNegative ==
  /\ options.times = <<0>>
       => /\ attempts <= 1
          /\ rpc # "idle" => attempts = 1
          /\ (retryDone /\ script[1].kind = "fail")
               => rpc = "raised" /\ rout = Plain(script[1].val)
  /\ (options.times # <<>> /\ timesOf(options) < 0)
       => /\ attempts = 0
          /\ rpc # "idle" => rpc = "returned" /\ rout = Plain(Undefined)

\* ------------------------------------------------------------------------
\* defer: several failures, and callbacks registered by callbacks
\* ------------------------------------------------------------------------
\* the callbacks of the body that are registered with rethrow: true and
\* fail when they are called
failingRethrows ==
  {k \in 1..Len(dregs) : dregs[k].rethrow /\ dregs[k].fn.result # "ok"}

\* the earliest registered of them
earliestFailing == CHOOSE k \in failingRethrows : \A j \in failingRethrows : k <= j

\* C24: when several callbacks registered with rethrow: true fail, defer
\* raises the failure of the earliest registered of them, and raises it at
\* that point of the iteration: no later callback is started.
C24_EarliestRethrowRaised ==
  (deferDone /\ Cardinality(failingRethrows) >= 2)
    => /\ dpc = "raised"
       /\ dout = callbackOutcome(earliestFailing, dregs[earliestFailing].fn).val
       /\ \A k \in 1..Len(callbacks) : k > earliestFailing => callbackStarts(k) = 0

\* C29: a callback registered by a callback, while defer runs its
\* callbacks, is executed in the same call of defer, after all the
\* callbacks registered before it.
C29_LateCallbackRuns ==
  deferDone
    => \A k \in (Len(dregs) + 1)..Len(callbacks) :
         /\ callbackStarts(k) = 1
         /\ \A j \in 1..(k - 1) :
              \E a, b \in 1..Len(dlog) :
                a < b /\ dlog[a] = Settled(j) /\ dlog[b] = Started(k)

====
